---- MODULE Spec2Model ----
(***************************************************************************)
(* A model of kmesong/temperature-monitor: the interactive monitor         *)
(* (src/temperature_monitor.py) and the headless monitor                   *)
(* (src/temperature_monitor_headless.py).  One behaviour is one process    *)
(* run of one of the two scripts: the entry point is chosen in Init, the   *)
(* main thread walks through the script (pc), and the cooldown tasks       *)
(* started by trigger_alert run beside it as daemon threads.               *)
(*                                                                         *)
(* Numbers with a fractional part (temperatures, thresholds) are held in   *)
(* tenths: 50.0 is 500.  Python strings are sequences of chunks, a chunk   *)
(* being a run of plain ASCII text or one character that json escapes.     *)
(* File contents are sequences of one-character strings.                   *)
(***************************************************************************)
EXTENDS Integers, Sequences, FiniteSets, TLC

VARIABLES
    variant,          \* which script runs: "interactive" or "headless"
    arg,              \* sys.argv[1] of the run (or the entry taken without one)
    tesseract,        \* environment: the Tesseract OCR engine is installed
    frameSize,        \* environment: [w, h] of the frames the camera yields
    file,             \* config.json: [exists, keys, <one text per key>]
    config,           \* self.config (a dict): [keys, <one value per key>]
    pc,               \* position of the main thread; at the end "returned"
                      \* (exit status 0) or the exception that ended it
    cap,              \* self.cap: "none", "open" or "released"
    run_index,        \* the camera_index argument of the headless run()
    roi,              \* the roi local of the headless run() (read once)
    roi_config,       \* the roi_config local of calibrate_roi
    temp,             \* the reading of the current iteration (None or a value)
    last_temp,        \* self.last_temp
    alert_triggered,  \* self.alert_triggered
    timers,           \* the reset_alert threads, in start order
    sounds,           \* number of play_alert_sound threads started
    log,              \* the log file: a sequence of lines [temp, status]
    sec,              \* int(time.time()) % 10
    sinceLog          \* whole seconds since last_log_time, saturating; in the
                      \* interactive run, which keeps no such time, the seconds
                      \* since the loop last wrote a normal line (or began)

vars == <<variant, arg, tesseract, frameSize, file, config, pc, cap, run_index, roi,
          roi_config, temp, last_temp, alert_triggered, timers, sounds, log, sec,
          sinceLog>>

-----------------------------------------------------------------------------
(* Bounds of the model *)

\* the log file holds at most this many lines before polling stops appending
MaxLog == 3
\* the '+' and '-' keys are explored this many steps (of 1.0) around 50.0
MaxThresholdSteps == 1

-----------------------------------------------------------------------------
(* Python values *)

None == [has |-> FALSE, v |-> 0]
Some(x) == [has |-> TRUE, v |-> x]

Keys == {"camera_index", "temperature_threshold", "threshold_direction",
         "alert_cooldown_seconds", "roi", "ocr_config", "log_file",
         "enable_preview", "capture_interval", "log_interval"}

RequiredKeys == {"camera_index", "temperature_threshold", "threshold_direction",
                 "alert_cooldown_seconds", "roi", "ocr_config", "log_file"}

Float(t) == [float |-> TRUE, tenths |-> t]
PyInt(n) == [float |-> FALSE, tenths |-> 10 * n]

Rect(x, y, w, h) == [x |-> x, y |-> y, width |-> w, height |-> h]

OcrConfigDefault == <<"--psm 7 -c tessedit_char_whitelist=0123456789.-", "°", "CF">>

\* the value a dict without the key is given in the model (never read by the
\* program: reading an absent key raises KeyError)
EmptyConfig ==
    [keys |-> {},
     camera_index |-> 0,
     temperature_threshold |-> PyInt(0),
     threshold_direction |-> <<>>,
     alert_cooldown_seconds |-> 0,
     roi |-> Rect(0, 0, 0, 0),
     ocr_config |-> <<>>,
     log_file |-> <<>>,
     enable_preview |-> FALSE,
     capture_interval |-> 0,
     log_interval |-> 0]

InteractiveDefault ==
    [keys |-> RequiredKeys \cup {"enable_preview"},
     camera_index |-> 0,
     temperature_threshold |-> Float(500),
     threshold_direction |-> <<"above">>,
     alert_cooldown_seconds |-> 60,
     roi |-> Rect(100, 100, 200, 100),
     ocr_config |-> OcrConfigDefault,
     log_file |-> <<"temperature_log.txt">>,
     enable_preview |-> TRUE,
     capture_interval |-> 0,
     log_interval |-> 0]

HeadlessDefault ==
    [keys |-> RequiredKeys \cup {"capture_interval", "log_interval"},
     camera_index |-> 0,
     temperature_threshold |-> Float(500),
     threshold_direction |-> <<"above">>,
     alert_cooldown_seconds |-> 60,
     roi |-> Rect(200, 150, 150, 80),
     ocr_config |-> OcrConfigDefault,
     log_file |-> <<"temperature_log.txt">>,
     enable_preview |-> FALSE,
     capture_interval |-> 1,
     log_interval |-> 10]

default_config(v) == IF v = "interactive" THEN InteractiveDefault ELSE HeadlessDefault

-----------------------------------------------------------------------------
(* json.dump and json.load, value by value *)

Digits == <<"0", "1", "2", "3", "4", "5", "6", "7", "8", "9">>
IsDigit(c) == \E i \in 1..10 : Digits[i] = c
DigitVal(c) == (CHOOSE i \in 1..10 : Digits[i] = c) - 1

RECURSIVE NatToChars(_)
NatToChars(n) ==
    IF n < 10 THEN <<Digits[n + 1]>>
    ELSE NatToChars(n \div 10) \o <<Digits[(n % 10) + 1]>>

IntToChars(n) == IF n < 0 THEN <<"-">> \o NatToChars(-n) ELSE NatToChars(n)

\* float.__repr__: an integral float keeps its ".0"
FloatToChars(t) ==
    LET a == IF t < 0 THEN -t ELSE t
        body == NatToChars(a \div 10) \o <<".">> \o <<Digits[(a % 10) + 1]>>
    IN  IF t < 0 THEN <<"-">> \o body ELSE body

DumpNumber(n) == IF n.float THEN FloatToChars(n.tenths) ELSE IntToChars(n.tenths \div 10)

RECURSIVE CharsToNat(_)
CharsToNat(s) ==
    IF s = <<>> THEN 0
    ELSE 10 * CharsToNat(SubSeq(s, 1, Len(s) - 1)) + DigitVal(s[Len(s)])

\* the position of the first "." of s, or 0
DotAt(s) == IF \E i \in 1..Len(s) : s[i] = "."
            THEN CHOOSE i \in 1..Len(s) : s[i] = "." /\ \A j \in 1..(i - 1) : s[j] # "."
            ELSE 0

\* a JSON number literal: with a fraction it loads as a float, else as an int
LoadNumber(s) ==
    LET neg == s # <<>> /\ s[1] = "-"
        u == IF neg THEN Tail(s) ELSE s
        d == DotAt(u)
        ip == IF d = 0 THEN u ELSE SubSeq(u, 1, d - 1)
        fr == IF d = 0 THEN <<>> ELSE SubSeq(u, d + 1, Len(u))
        mag == 10 * CharsToNat(ip) + (IF fr = <<>> THEN 0 ELSE DigitVal(fr[1]))
    IN  [float |-> d # 0, tenths |-> IF neg THEN -mag ELSE mag]

DumpInt(n) == IntToChars(n)
LoadInt(s) == LoadNumber(s).tenths \div 10

\* json escapes the quote, the backslash and (ensure_ascii) non-ASCII characters
Escape(chunk) ==
    CASE chunk = "°" -> "\\u00b0"
      [] chunk = "\\" -> "\\\\"
      [] chunk = "\"" -> "\\\""
      [] OTHER -> chunk

Unescape(tok) ==
    CASE tok = "\\u00b0" -> "°"
      [] tok = "\\\\" -> "\\"
      [] tok = "\\\"" -> "\""
      [] OTHER -> tok

DumpStr(s) == <<"\"">> \o [i \in 1..Len(s) |-> Escape(s[i])] \o <<"\"">>
LoadStr(t) == [i \in 1..(Len(t) - 2) |-> Unescape(t[i + 1])]

\* mutant of DumpBool: str(b) instead of the JSON literal
DumpBoolPy(b) == IF b THEN <<"True">> ELSE <<"False">>

DumpBool(b) == IF b THEN <<"true">> ELSE <<"false">>
LoadBool(t) == t = <<"true">>

DumpRect(r) == [x |-> DumpInt(r.x), y |-> DumpInt(r.y),
                width |-> DumpInt(r.width), height |-> DumpInt(r.height)]
LoadRect(t) == [x |-> LoadInt(t.x), y |-> LoadInt(t.y),
                width |-> LoadInt(t.width), height |-> LoadInt(t.height)]

NoFile ==
    [exists |-> FALSE, keys |-> {},
     camera_index |-> <<>>, temperature_threshold |-> <<>>,
     threshold_direction |-> <<>>, alert_cooldown_seconds |-> <<>>,
     roi |-> [x |-> <<>>, y |-> <<>>, width |-> <<>>, height |-> <<>>],
     ocr_config |-> <<>>, log_file |-> <<>>, enable_preview |-> <<>>,
     capture_interval |-> <<>>, log_interval |-> <<>>]

\* json.dump(cfg, f, indent=4): the text of each key the dict holds
json_dump(cfg) ==
    LET has(k) == k \in cfg.keys
    IN  [exists |-> TRUE, keys |-> cfg.keys,
         camera_index |-> IF has("camera_index") THEN DumpInt(cfg.camera_index) ELSE <<>>,
         temperature_threshold |-> IF has("temperature_threshold")
                                   THEN DumpNumber(cfg.temperature_threshold) ELSE <<>>,
         threshold_direction |-> IF has("threshold_direction")
                                 THEN DumpStr(cfg.threshold_direction) ELSE <<>>,
         alert_cooldown_seconds |-> IF has("alert_cooldown_seconds")
                                    THEN DumpInt(cfg.alert_cooldown_seconds) ELSE <<>>,
         roi |-> IF has("roi") THEN DumpRect(cfg.roi) ELSE NoFile.roi,
         ocr_config |-> IF has("ocr_config") THEN DumpStr(cfg.ocr_config) ELSE <<>>,
         log_file |-> IF has("log_file") THEN DumpStr(cfg.log_file) ELSE <<>>,
         enable_preview |-> IF has("enable_preview") THEN DumpBool(cfg.enable_preview) ELSE <<>>,
         capture_interval |-> IF has("capture_interval") THEN DumpInt(cfg.capture_interval) ELSE <<>>,
         log_interval |-> IF has("log_interval") THEN DumpInt(cfg.log_interval) ELSE <<>>]

\* json.load(f): the value of each key the text holds
json_load(f) ==
    LET has(k) == k \in f.keys
        E == EmptyConfig
    IN  [keys |-> f.keys,
         camera_index |-> IF has("camera_index") THEN LoadInt(f.camera_index) ELSE E.camera_index,
         temperature_threshold |-> IF has("temperature_threshold")
                                   THEN LoadNumber(f.temperature_threshold)
                                   ELSE E.temperature_threshold,
         threshold_direction |-> IF has("threshold_direction")
                                 THEN LoadStr(f.threshold_direction) ELSE <<>>,
         alert_cooldown_seconds |-> IF has("alert_cooldown_seconds")
                                    THEN LoadInt(f.alert_cooldown_seconds) ELSE 0,
         roi |-> IF has("roi") THEN LoadRect(f.roi) ELSE E.roi,
         ocr_config |-> IF has("ocr_config") THEN LoadStr(f.ocr_config) ELSE <<>>,
         log_file |-> IF has("log_file") THEN LoadStr(f.log_file) ELSE <<>>,
         enable_preview |-> IF has("enable_preview") THEN LoadBool(f.enable_preview) ELSE FALSE,
         capture_interval |-> IF has("capture_interval") THEN LoadInt(f.capture_interval) ELSE 0,
         log_interval |-> IF has("log_interval") THEN LoadInt(f.log_interval) ELSE 0]

-----------------------------------------------------------------------------
(* extract_temperature: re.findall(r'-?\d+\.?\d*', text)[0], then float() *)

\* whether a match of the pattern starts at position i of s
MatchStarts(s, i) ==
    \/ IsDigit(s[i])
    \/ s[i] = "-" /\ i < Len(s) /\ IsDigit(s[i + 1])

\* the last position of the run of digits that starts at i (i - 1 if none)
RECURSIVE DigitsEnd(_, _)
DigitsEnd(s, i) ==
    IF i <= Len(s) /\ IsDigit(s[i]) THEN DigitsEnd(s, i + 1) ELSE i - 1

\* the first (leftmost, greedy) match, or <<>> when there is none
FirstNumber(s) ==
    IF \E i \in 1..Len(s) : MatchStarts(s, i)
    THEN LET b == CHOOSE i \in 1..Len(s) :
                      MatchStarts(s, i) /\ \A j \in 1..(i - 1) : ~MatchStarts(s, j)
             d == IF s[b] = "-" THEN b + 1 ELSE b
             e1 == DigitsEnd(s, d)
             e2 == IF e1 < Len(s) /\ s[e1 + 1] = "." THEN DigitsEnd(s, e1 + 2) ELSE e1
         IN  SubSeq(s, b, e2)
    ELSE <<>>

\* float(token) succeeds on: optional sign, digits, optional "." and digits
IsFloatLiteral(t) ==
    LET u == IF t # <<>> /\ t[1] = "-" THEN Tail(t) ELSE t
        d == DotAt(u)
        ip == IF d = 0 THEN u ELSE SubSeq(u, 1, d - 1)
        fr == IF d = 0 THEN <<>> ELSE SubSeq(u, d + 1, Len(u))
    IN  /\ ip \o fr # <<>>
        /\ \A i \in 1..Len(ip) : IsDigit(ip[i])
        /\ \A i \in 1..Len(fr) : IsDigit(fr[i])

extract_temperature(text) ==
    LET numbers0 == FirstNumber(text)
    IN  IF numbers0 # <<>>
        THEN IF IsFloatLiteral(numbers0)
             THEN Some(LoadNumber(numbers0).tenths)
             ELSE None
        ELSE None

\* what the OCR engine may return for a frame (readings have at most one
\* fractional digit)
OcrTexts ==
    { <<>>,
      <<"-", ".", "C">>,
      <<"-", "1", "2", ".", "5", "C">>,
      <<"C", "5", "0", ".", "F", "9">> }

-----------------------------------------------------------------------------
(* the crop frame[y:y+h, x:x+w] of a frame of frameSize *)

\* a slice bound as numpy normalises it on an axis of length n
SliceBound(a, n) == IF a < 0 THEN (IF a + n < 0 THEN 0 ELSE a + n)
                    ELSE (IF a > n THEN n ELSE a)

SliceLen(a, b, n) ==
    LET lo == SliceBound(a, n)
        hi == SliceBound(b, n)
    IN  IF hi > lo THEN hi - lo ELSE 0

\* cv2.cvtColor raises on an empty image
CropEmpty(r, fs) ==
    \/ SliceLen(r.y, r.y + r.height, fs.h) = 0
    \/ SliceLen(r.x, r.x + r.width, fs.w) = 0

FrameSizes == { [w |-> 160, h |-> 120], [w |-> 640, h |-> 480] }

\* the region the 'r' key installs for a frame
reset_roi(fs) == Rect(fs.w \div 4, fs.h \div 4, fs.w \div 2, fs.h \div 4)

-----------------------------------------------------------------------------
(* check_alert *)

\* mutant of check_alert: strict comparisons
check_alert_strict(triggered, cfg, t) ==
    /\ ~triggered
    /\ \/ cfg.threshold_direction = <<"above">> /\ t > cfg.temperature_threshold.tenths
       \/ cfg.threshold_direction = <<"below">> /\ t < cfg.temperature_threshold.tenths

\* mutant of check_alert: the alerting flag is not consulted
check_alert_ignores_flag(triggered, cfg, t) ==
    \/ cfg.threshold_direction = <<"above">> /\ t >= cfg.temperature_threshold.tenths
    \/ cfg.threshold_direction = <<"below">> /\ t <= cfg.temperature_threshold.tenths

check_alert(triggered, cfg, t) ==
    IF triggered THEN FALSE
    ELSE IF cfg.threshold_direction = <<"above">> /\ t >= cfg.temperature_threshold.tenths
         THEN TRUE
         ELSE IF cfg.threshold_direction = <<"below">> /\ t <= cfg.temperature_threshold.tenths
              THEN TRUE
              ELSE FALSE

-----------------------------------------------------------------------------
(* The configurations a run may find in config.json *)

BelowConfig ==
    [keys |-> Keys,
     camera_index |-> 1,
     temperature_threshold |-> PyInt(49),
     threshold_direction |-> <<"below">>,
     alert_cooldown_seconds |-> 0,
     roi |-> Rect(10, 10, 50, 20),
     ocr_config |-> OcrConfigDefault,
     log_file |-> <<"C:", "\\", "temp.log">>,
     enable_preview |-> FALSE,
     capture_interval |-> 1,
     log_interval |-> 2]

NegativeCooldownConfig ==
    [BelowConfig EXCEPT !.threshold_direction = <<"above">>,
                        !.temperature_threshold = Float(495),
                        !.alert_cooldown_seconds = -1]

\* what calibrate_roi leaves when it saves without a config file
CalibratedOnlyConfig ==
    [EmptyConfig EXCEPT !.keys = {"roi"}, !.roi = Rect(10, 20, 100, 50)]

\* a hand-written config.json with the keys both variants write and no other
RequiredOnlyConfig == [InteractiveDefault EXCEPT !.keys = RequiredKeys]

UserConfigs == {InteractiveDefault, HeadlessDefault, BelowConfig,
                NegativeCooldownConfig, CalibratedOnlyConfig, RequiredOnlyConfig}

InitialFiles == {NoFile} \cup {json_dump(c) : c \in UserConfigs}

\* "--setup" of the interactive script prints like "--help" and is not held
Args(v) == IF v = "interactive" THEN {"run", "--calibrate", "--help"}
           ELSE {"auto", "--select", "index", "--list", "--help"}

CamIds == {0, 1}

\* the rectangles a mouse drag may leave in roi_config
CalRois == {Rect(10, 20, 100, 50), Rect(30, 30, 0, 0)}

KeyChoices == {"none", "q", "r", "c", "+", "-"}

-----------------------------------------------------------------------------
(* State *)

Has(k) == k \in config.keys

LoopPcs == {"loop", "check", "trigger", "trigger_timer", "log", "keys"}

\* the exceptions that end the process with a non-zero exit status;
\* "SystemExit" is sys.exit(1)
Raised == {"KeyError", "cv2.error", "KeyboardInterrupt", "SystemExit"}

ProcessAlive == pc \notin {"returned"} \cup Raised

Init ==
    /\ variant \in {"interactive", "headless"}
    /\ arg \in Args(variant)
    /\ tesseract \in BOOLEAN
    /\ file \in InitialFiles
    /\ frameSize = [w |-> 0, h |-> 0]
    /\ config = EmptyConfig
    /\ pc = "main"
    /\ cap = "none"
    /\ run_index = 0
    /\ roi = Rect(0, 0, 0, 0)
    /\ roi_config = Rect(0, 0, 0, 0)
    /\ temp = None
    /\ last_temp = None
    /\ alert_triggered = FALSE
    /\ timers = <<>>
    /\ sounds = 0
    /\ log = <<>>
    /\ sec = 0
    /\ sinceLog = 0

\* an exception leaves run(): the interactive run() has no handler, the
\* headless loop runs inside try/finally, which releases the handle
RaiseInLoop(e) ==
    /\ pc' = e
    /\ cap' = IF variant = "headless" THEN "released" ELSE cap

-----------------------------------------------------------------------------
(* __init__ / load_config / save_config *)

save_config(cfg) == json_dump(cfg)

\* the dict load_config leaves in self.config
load_config(f, v) == IF f.exists THEN json_load(f) ELSE default_config(v)

\* __main__: pytesseract.get_tesseract_version() in try/except, sys.exit(1)
TesseractCheck ==
    /\ pc = "main"
    /\ variant = "headless" \/ arg = "run"
    /\ pc' = IF tesseract THEN "init" ELSE "SystemExit"
    /\ UNCHANGED <<variant, arg, tesseract, frameSize, file, config, cap, run_index,
                   roi, roi_config, temp, last_temp, alert_triggered, timers, sounds,
                   log, sec, sinceLog>>

\* the interactive __main__ with --help: prints the usage
ShowHelp ==
    /\ pc = "main"
    /\ variant = "interactive" /\ arg = "--help"
    /\ pc' = "returned"
    /\ UNCHANGED <<variant, arg, tesseract, frameSize, file, config, cap, run_index,
                   roi, roi_config, temp, last_temp, alert_triggered, timers, sounds,
                   log, sec, sinceLog>>

Construct ==
    /\ pc = "init"
    /\ config' = load_config(file, variant)
    /\ file' = IF file.exists THEN file ELSE save_config(config')
    /\ \E i \in CamIds :
          run_index' = IF arg = "index" THEN i ELSE run_index
    /\ pc' = CASE arg = "--select" -> "select"
               [] arg = "auto" -> "auto"
               [] arg \in {"--list", "--help"} -> "list"
               [] OTHER -> "run"
    /\ UNCHANGED <<variant, arg, tesseract, frameSize, cap, roi, roi_config, temp, last_temp,
                   alert_triggered, timers, sounds, log, sec, sinceLog>>

(* headless __main__: --select and the automatic selection *)

\* config after a camera was selected
select_config(cfg, selected) ==
    [cfg EXCEPT !.camera_index = selected, !.keys = @ \cup {"camera_index"}]

\* --help, and --list: list_available_cameras opens and releases each
\* camera index in turn; then sys.exit(0)
ListCameras ==
    /\ pc = "list"
    /\ pc' = "returned"
    /\ UNCHANGED <<variant, arg, tesseract, frameSize, file, config, cap, run_index,
                   roi, roi_config, temp, last_temp, alert_triggered, timers, sounds,
                   log, sec, sinceLog>>

SelectCamera ==
    /\ pc = "select"
    /\ \E selected \in {None} \cup {Some(i) : i \in CamIds} :
          IF selected.has
          THEN /\ config' = select_config(config, selected.v)
               /\ file' = save_config(config')
               /\ run_index' = selected.v
               /\ pc' = "run"
          ELSE /\ pc' = "returned"
               /\ UNCHANGED <<config, file, run_index>>
    /\ UNCHANGED <<variant, arg, tesseract, frameSize, cap, roi, roi_config, temp, last_temp,
                   alert_triggered, timers, sounds, log, sec, sinceLog>>

AutoSelect ==
    /\ pc = "auto"
    /\ \E selected \in {None} \cup {Some(i) : i \in CamIds} :
          IF selected.has
          THEN /\ config' = select_config(config, selected.v)
               /\ file' = save_config(config')
               /\ run_index' = selected.v
               /\ pc' = "run"
          ELSE /\ pc' = "SystemExit"
               /\ UNCHANGED <<config, file, run_index>>
    /\ UNCHANGED <<variant, arg, tesseract, frameSize, cap, roi, roi_config, temp, last_temp,
                   alert_triggered, timers, sounds, log, sec, sinceLog>>

-----------------------------------------------------------------------------
(* run(): opening the camera *)

RunOpenInteractive ==
    /\ pc = "run"
    /\ variant = "interactive"
    /\ IF ~Has("camera_index")
       THEN pc' = "KeyError" /\ UNCHANGED <<cap, frameSize>>
       ELSE \E ok0, ok1 \in BOOLEAN, fs \in FrameSizes :
              IF ok0 \/ ok1
              THEN /\ cap' = "open"
                   /\ frameSize' = fs
                   /\ pc' = IF Has("temperature_threshold") THEN "loop" ELSE "KeyError"
              ELSE /\ pc' = "returned"
                   /\ UNCHANGED <<cap, frameSize>>
    /\ UNCHANGED <<variant, arg, tesseract, file, config, run_index, roi, roi_config, temp,
                   last_temp, alert_triggered, timers, sounds, log, sec, sinceLog>>

RunOpenHeadless ==
    /\ pc = "run"
    /\ variant = "headless"
    /\ \E ok \in BOOLEAN, fs \in FrameSizes :
          IF ok
          THEN cap' = "open" /\ frameSize' = fs /\ pc' = "testread"
          ELSE pc' = "returned" /\ UNCHANGED <<cap, frameSize>>
    /\ UNCHANGED <<variant, arg, tesseract, file, config, run_index, roi, roi_config, temp,
                   last_temp, alert_triggered, timers, sounds, log, sec, sinceLog>>

\* the test read of the headless run() and the lines up to the try
TestRead ==
    /\ pc = "testread"
    /\ \E ret \in BOOLEAN :
          IF ~ret
          THEN cap' = "released" /\ pc' = "returned" /\ UNCHANGED <<roi, sinceLog>>
          ELSE IF {"temperature_threshold", "threshold_direction", "roi", "log_file"}
                      \subseteq config.keys
               THEN /\ roi' = config.roi
                    /\ sinceLog' = 0
                    /\ pc' = "loop"
                    /\ UNCHANGED cap
               ELSE pc' = "KeyError" /\ UNCHANGED <<cap, roi, sinceLog>>
    /\ UNCHANGED <<variant, arg, tesseract, frameSize, file, config, run_index, roi_config, temp,
                   last_temp, alert_triggered, timers, sounds, log, sec>>

-----------------------------------------------------------------------------
(* run(): one iteration of the poll loop, in the steps at which the cooldown
   task may interleave *)

\* the rectangle of the crop: the interactive loop reads config['roi'] in
\* each iteration, the headless loop the roi it read before the loop
CropRect == IF variant = "interactive" THEN config.roi ELSE roi

\* the exception the crop or extract_temperature raises, "" if none
FrameRaises ==
    CASE variant = "interactive" /\ ~Has("roi") -> "KeyError"
      [] CropEmpty(CropRect, frameSize) -> "cv2.error"
      [] ~Has("ocr_config") -> "KeyError"
      [] OTHER -> ""

\* mutant of last_temp_after: assigned before the test for a value
last_temp_always(t, last) == t

\* self.last_temp after extraction returned t
last_temp_after(t, last) == IF t.has THEN t ELSE last

\* cap.read(), the crop and extract_temperature
ReadFrame(ret, text) ==
    /\ pc = "loop"
    /\    LET t == extract_temperature(text) IN
          IF ~ret
          THEN /\ pc' = IF variant = "interactive" THEN "cleanup" ELSE "loop"
               /\ sinceLog' = IF variant = "headless"
                                  /\ Has("log_interval") /\ sinceLog < config.log_interval
                              THEN sinceLog + 1 ELSE sinceLog
               /\ UNCHANGED <<cap, temp, last_temp>>
          ELSE IF FrameRaises # ""
               THEN RaiseInLoop(FrameRaises) /\ UNCHANGED <<temp, last_temp, sinceLog>>
               ELSE /\ t.has => Len(log) + 2 <= MaxLog
                    /\ temp' = t
                    /\ last_temp' = last_temp_after(t, last_temp)
                    /\ pc' = IF t.has THEN "check"
                             ELSE IF variant = "interactive" THEN "keys" ELSE "loop"
                    /\ UNCHANGED <<cap, sinceLog>>
    /\ UNCHANGED <<variant, arg, tesseract, frameSize, file, config, run_index, roi, roi_config,
                   alert_triggered, timers, sounds, log, sec>>

\* if self.check_alert(temp):
CheckAlert ==
    /\ pc = "check"
    /\ IF {"temperature_threshold", "threshold_direction"} \subseteq config.keys
          \/ alert_triggered
       THEN /\ pc' = IF check_alert(alert_triggered, config, temp.v)
                     THEN "trigger" ELSE "log"
            /\ UNCHANGED cap
       ELSE RaiseInLoop("KeyError")
    /\ UNCHANGED <<variant, arg, tesseract, frameSize, file, config, run_index, roi, roi_config,
                   temp, last_temp, alert_triggered, timers, sounds, log, sec, sinceLog>>

\* log_temperature(temp, status): the line appended to the log file (its
\* timestamp is not held)
log_temperature(lg, t, status) == Append(lg, [temp |-> t, status |-> status])

\* trigger_alert up to the assignment of the flag
TriggerAlert ==
    /\ pc = "trigger"
    /\ IF Has("log_file")
       THEN /\ log' = log_temperature(log, temp.v, "ALERT")
            /\ sounds' = sounds + 1
            /\ alert_triggered' = TRUE
            /\ pc' = "trigger_timer"
            /\ UNCHANGED cap
       ELSE RaiseInLoop("KeyError") /\ UNCHANGED <<log, sounds, alert_triggered>>
    /\ UNCHANGED <<variant, arg, tesseract, frameSize, file, config, run_index, roi, roi_config,
                   temp, last_temp, timers, sec, sinceLog>>

\* Thread(target=reset_alert, daemon=True).start()
StartResetThread ==
    /\ pc = "trigger_timer"
    /\ timers' = Append(timers, "new")
    /\ pc' = "log"
    /\ UNCHANGED <<variant, arg, tesseract, frameSize, file, config, cap, run_index, roi,
                   roi_config, temp, last_temp, alert_triggered, sounds, log, sec,
                   sinceLog>>

\* the interactive loop logs while int(time.time()) % 10 == 0
LogEvery == 10

\* whether the iteration appends a normal-status line
log_due(v, cfg, s, since) ==
    IF v = "interactive" THEN s % LogEvery = 0 ELSE since >= cfg.log_interval

LogNormal ==
    /\ pc = "log"
    /\ IF variant = "headless" /\ ~Has("log_interval")
       THEN RaiseInLoop("KeyError") /\ UNCHANGED <<log, sinceLog, temp>>
       ELSE /\ IF log_due(variant, config, sec, sinceLog)
               THEN /\ log' = log_temperature(log, temp.v, "normal")
                    /\ sinceLog' = 0
               ELSE UNCHANGED <<log, sinceLog>>
            /\ pc' = IF variant = "interactive" THEN "keys" ELSE "loop"
            /\ temp' = IF variant = "interactive" THEN temp ELSE None
            /\ UNCHANGED cap
    /\ UNCHANGED <<variant, arg, tesseract, frameSize, file, config, run_index, roi, roi_config,
                   last_temp, alert_triggered, timers, sounds, sec>>

\* config after the '+' (d = 1) or '-' (d = -1) key
bump_threshold(cfg, d) ==
    [cfg EXCEPT !.temperature_threshold.tenths = @ + 10 * d]

\* config after the 'r' key
reset_config(cfg, fs) == [cfg EXCEPT !.roi = reset_roi(fs)]

ThresholdInRange(cfg) ==
    /\ cfg.temperature_threshold.tenths <= 500 + 10 * MaxThresholdSteps
    /\ cfg.temperature_threshold.tenths >= 500 - 10 * MaxThresholdSteps

\* the rest of an interactive iteration: drawing, imshow, waitKey and the key
\* mutant of SavingKeys: the threshold keys do not save
SavingKeysResetOnly == {"r"}

\* the keys after which the loop calls save_config
SavingKeys == {"r", "+", "-"}

HandleKey(key) ==
    /\ pc = "keys"
    /\ IF {"roi", "temperature_threshold", "threshold_direction", "enable_preview"}
              \subseteq config.keys
       THEN   /\ config' = CASE key = "r" -> reset_config(config, frameSize)
                             [] key = "+" -> bump_threshold(config, 1)
                             [] key = "-" -> bump_threshold(config, -1)
                             [] OTHER -> config
              /\ ThresholdInRange(config')
              /\ file' = IF key \in SavingKeys THEN save_config(config') ELSE file
              /\ pc' = IF key = "q" THEN "cleanup" ELSE "loop"
              /\ temp' = None
              /\ UNCHANGED cap
       ELSE RaiseInLoop("KeyError") /\ UNCHANGED <<config, file, temp>>
    /\ UNCHANGED <<variant, arg, tesseract, frameSize, run_index, roi, roi_config, last_temp,
                   alert_triggered, timers, sounds, log, sec, sinceLog>>

\* the lines after the interactive loop
Cleanup ==
    /\ pc = "cleanup"
    /\ cap' = "released"
    /\ pc' = "returned"
    /\ UNCHANGED <<variant, arg, tesseract, frameSize, file, config, run_index, roi, roi_config,
                   temp, last_temp, alert_triggered, timers, sounds, log, sec, sinceLog>>

\* Ctrl+C while run() holds the camera: the headless loop catches it and its
\* finally releases the handle; nothing else handles it
Interrupt ==
    /\ pc \in LoopPcs \cup {"testread"}
    /\ arg # "--calibrate"
    /\ IF variant = "headless" /\ pc \in LoopPcs
       THEN cap' = "released" /\ pc' = "returned"
       ELSE pc' = "KeyboardInterrupt" /\ UNCHANGED cap
    /\ UNCHANGED <<variant, arg, tesseract, frameSize, file, config, run_index, roi, roi_config,
                   temp, last_temp, alert_triggered, timers, sounds, log, sec, sinceLog>>

\* a second of wall-clock time passes while the loop runs
Tick ==
    /\ pc \in LoopPcs
    /\ IF variant = "interactive"
       THEN /\ sec' = (sec + 1) % LogEvery
            /\ sinceLog' = IF sinceLog < LogEvery THEN sinceLog + 1 ELSE sinceLog
       ELSE /\ Has("log_interval") /\ sinceLog < config.log_interval
            /\ sinceLog' = sinceLog + 1
            /\ UNCHANGED sec
    /\ UNCHANGED <<variant, arg, tesseract, frameSize, file, config, pc, cap, run_index, roi,
                   roi_config, temp, last_temp, alert_triggered, timers, sounds, log>>

-----------------------------------------------------------------------------
(* reset_alert, the daemon thread started by trigger_alert *)

\* time.sleep(self.config['alert_cooldown_seconds']) raises on a missing key
\* and on a negative length
sleep_raises(cfg) ==
    \/ "alert_cooldown_seconds" \notin cfg.keys
    \/ cfg.alert_cooldown_seconds < 0

\* mutant of ResetSleep: the flag is cleared before the sleep
ResetSleepClearsFirst(i) ==
    /\ ProcessAlive
    /\ timers[i] = "new"
    /\ alert_triggered' = FALSE
    /\ timers' = [timers EXCEPT ![i] = IF sleep_raises(config) THEN "dead" ELSE "sleeping"]
    /\ UNCHANGED <<variant, arg, tesseract, frameSize, file, config, pc, cap, run_index, roi,
                   roi_config, temp, last_temp, sounds, log, sec, sinceLog>>

ResetSleep(i) ==
    /\ ProcessAlive
    /\ timers[i] = "new"
    /\ timers' = [timers EXCEPT ![i] = IF sleep_raises(config) THEN "dead" ELSE "sleeping"]
    /\ UNCHANGED <<variant, arg, tesseract, frameSize, file, config, pc, cap, run_index, roi,
                   roi_config, temp, last_temp, alert_triggered, sounds, log, sec,
                   sinceLog>>

\* mutant of ResetWake: the thread ends without clearing the flag
ResetWakeKeepsFlag(i) ==
    /\ ProcessAlive
    /\ timers[i] = "sleeping"
    /\ timers' = [timers EXCEPT ![i] = "done"]
    /\ UNCHANGED <<variant, arg, tesseract, frameSize, file, config, pc, cap, run_index, roi,
                   roi_config, temp, last_temp, alert_triggered, sounds, log, sec,
                   sinceLog>>

\* mutant of ResetWake: the thread clears the flag after every sleep
ResetWakeRepeats(i) ==
    /\ ProcessAlive
    /\ timers[i] = "sleeping"
    /\ alert_triggered
    /\ alert_triggered' = FALSE
    /\ UNCHANGED <<variant, arg, tesseract, frameSize, file, config, pc, cap,
                   run_index, roi, roi_config, temp, last_temp, timers, sounds, log,
                   sec, sinceLog>>

ResetWake(i) ==
    /\ ProcessAlive
    /\ timers[i] = "sleeping"
    /\ alert_triggered' = FALSE
    /\ timers' = [timers EXCEPT ![i] = "done"]
    /\ UNCHANGED <<variant, arg, tesseract, frameSize, file, config, pc, cap, run_index, roi,
                   roi_config, temp, last_temp, sounds, log, sec, sinceLog>>

ResetThread == \E i \in 1..Len(timers) : ResetSleep(i) \/ ResetWake(i)

-----------------------------------------------------------------------------
(* calibrate_roi *)

CalOpen ==
    /\ pc = "main"
    /\ arg = "--calibrate"
    /\ \E ok \in BOOLEAN, fs \in FrameSizes :
          IF ok
          THEN /\ cap' = "open"
               /\ frameSize' = fs
               /\ roi_config' = Rect(100, 100, 200, 100)
               /\ pc' = "cal_loop"
          ELSE pc' = "returned" /\ UNCHANGED <<cap, frameSize, roi_config>>
    /\ UNCHANGED <<variant, arg, tesseract, file, config, run_index, roi, temp, last_temp,
                   alert_triggered, timers, sounds, log, sec, sinceLog>>

\* mouse_callback: a drag ends
CalMouse ==
    /\ pc = "cal_loop"
    /\ \E r \in CalRois : roi_config' = r
    /\ UNCHANGED <<variant, arg, tesseract, frameSize, file, config, pc, cap, run_index, roi,
                   temp, last_temp, alert_triggered, timers, sounds, log, sec, sinceLog>>

\* the file the 's' key writes
calibrate_save(f, r) ==
    LET cfg == IF f.exists THEN json_load(f) ELSE EmptyConfig
    IN  json_dump([cfg EXCEPT !.roi = r, !.keys = @ \cup {"roi"}])

CalKey ==
    /\ pc = "cal_loop"
    /\ \E key \in {"q", "s", "r", "readfail"} :
          /\ file' = IF key = "s" THEN calibrate_save(file, roi_config) ELSE file
          /\ roi_config' = IF key = "r" THEN Rect(100, 100, 200, 100) ELSE roi_config
          /\ pc' = IF key = "r" THEN "cal_loop" ELSE "returned"
          /\ cap' = IF key = "r" THEN cap ELSE "released"
    /\ UNCHANGED <<variant, arg, tesseract, frameSize, config, run_index, roi, temp, last_temp,
                   alert_triggered, timers, sounds, log, sec, sinceLog>>

-----------------------------------------------------------------------------

Next ==
    \/ TesseractCheck
    \/ ShowHelp
    \/ Construct
    \/ ListCameras
    \/ SelectCamera
    \/ AutoSelect
    \/ RunOpenInteractive
    \/ RunOpenHeadless
    \/ TestRead
    \/ \E ret \in BOOLEAN, text \in OcrTexts : ReadFrame(ret, text)
    \/ CheckAlert
    \/ TriggerAlert
    \/ StartResetThread
    \/ LogNormal
    \/ \E key \in KeyChoices : HandleKey(key)
    \/ Cleanup
    \/ Interrupt
    \/ Tick
    \/ ResetThread
    \/ CalOpen
    \/ CalMouse
    \/ CalKey

Spec == Init /\ [][Next]_vars

\* the scheduler runs a reset_alert thread that can take a step
\* and the main thread, having set the flag, goes on to start the thread
FairSpec == Spec /\ WF_vars(ResetThread) /\ WF_vars(StartResetThread)

-----------------------------------------------------------------------------
(* save_config followed by load_config, for every configuration over the
   supported keys *)

\* a dict holds nothing for the keys it lacks
Normalize(cfg) ==
    LET has(k) == k \in cfg.keys
        E == EmptyConfig
    IN  [keys |-> cfg.keys,
         camera_index |-> IF has("camera_index") THEN cfg.camera_index ELSE E.camera_index,
         temperature_threshold |-> IF has("temperature_threshold")
                                   THEN cfg.temperature_threshold
                                   ELSE E.temperature_threshold,
         threshold_direction |-> IF has("threshold_direction")
                                 THEN cfg.threshold_direction ELSE <<>>,
         alert_cooldown_seconds |-> IF has("alert_cooldown_seconds")
                                    THEN cfg.alert_cooldown_seconds ELSE 0,
         roi |-> IF has("roi") THEN cfg.roi ELSE E.roi,
         ocr_config |-> IF has("ocr_config") THEN cfg.ocr_config ELSE <<>>,
         log_file |-> IF has("log_file") THEN cfg.log_file ELSE <<>>,
         enable_preview |-> IF has("enable_preview") THEN cfg.enable_preview ELSE FALSE,
         capture_interval |-> IF has("capture_interval") THEN cfg.capture_interval ELSE 0,
         log_interval |-> IF has("log_interval") THEN cfg.log_interval ELSE 0]

RoundTripConfigs ==
    { Normalize([keys |-> ks,
                 camera_index |-> ci,
                 temperature_threshold |-> th,
                 threshold_direction |-> dir,
                 alert_cooldown_seconds |-> cd,
                 roi |-> r,
                 ocr_config |-> oc,
                 log_file |-> lf,
                 enable_preview |-> ep,
                 capture_interval |-> 1,
                 log_interval |-> li]) :
        ks \in {Keys, RequiredKeys, {"roi", "enable_preview"}},
        ci \in {0, 12},
        th \in {Float(500), Float(-5), Float(1005), PyInt(50), PyInt(-3)},
        dir \in {<<"above">>, <<"below">>},
        cd \in {0, 60},
        r \in {Rect(100, 100, 200, 100), Rect(-5, 7, 1280, 720)},
        oc \in {OcrConfigDefault, <<>>},
        lf \in {<<"temperature_log.txt">>, <<"C:", "\\", "logs", "\\", "a ", "\"", "b", "\"", ".txt">>},
        ep \in BOOLEAN,
        li \in {10, 0} }

InitRoundTrip ==
    /\ variant \in {"interactive", "headless"}
    /\ arg = "run"
    /\ tesseract = TRUE
    /\ file = NoFile
    /\ frameSize = [w |-> 0, h |-> 0]
    /\ config \in RoundTripConfigs
    /\ pc = "rt_save"
    /\ cap = "none"
    /\ run_index = 0
    /\ roi = Rect(0, 0, 0, 0)
    /\ roi_config = Rect(0, 0, 0, 0)
    /\ temp = None
    /\ last_temp = None
    /\ alert_triggered = FALSE
    /\ timers = <<>>
    /\ sounds = 0
    /\ log = <<>>
    /\ sec = 0
    /\ sinceLog = 0

RtSave ==
    /\ pc = "rt_save"
    /\ file' = save_config(config)
    /\ pc' = "rt_load"
    /\ UNCHANGED <<variant, arg, tesseract, frameSize, config, cap, run_index, roi, roi_config,
                   temp, last_temp, alert_triggered, timers, sounds, log, sec, sinceLog>>

RtLoad ==
    /\ pc = "rt_load"
    /\ config' = load_config(file, variant)
    /\ pc' = "rt_done"
    /\ UNCHANGED <<variant, arg, tesseract, frameSize, file, cap, run_index, roi, roi_config,
                   temp, last_temp, alert_triggered, timers, sounds, log, sec, sinceLog>>

NextRoundTrip == RtSave \/ RtLoad

SpecRoundTrip == InitRoundTrip /\ [][NextRoundTrip]_vars

-----------------------------------------------------------------------------
(* Properties *)

\* the reading t crosses the threshold of cfg in its direction
Crosses(cfg, t) ==
    \/ cfg.threshold_direction = <<"above">> /\ t >= cfg.temperature_threshold.tenths
    \/ cfg.threshold_direction = <<"below">> /\ t <= cfg.temperature_threshold.tenths

NumAlerts(lg) == Cardinality({i \in 1..Len(lg) : lg[i].status = "ALERT"})

PendingTimers == {i \in 1..Len(timers) : timers[i] \in {"new", "sleeping"}}

\* the main thread has evaluated check_alert in this step
Checked == pc = "check" /\ pc' \in {"trigger", "log"}

\* C1 as stated: in every monitor state check_alert(v) is true iff v crosses
\* the threshold in the configured direction.
C1_CheckIffCrosses ==
    [][Checked => ((pc' = "trigger") <=> Crosses(config, temp.v))]_vars

\* C1 amended: check_alert(v) is true iff the monitor is not alerting and v
\* crosses the threshold in the configured direction.
C1_CheckIffNormalAndCrosses ==
    [][Checked => ((pc' = "trigger") <=> (~alert_triggered /\ Crosses(config, temp.v)))]_vars

\* a crossing reading was checked while alerting and raised no alert: the
\* last line of the log is of another reading
C1_Witness ==
    /\ pc = "log" /\ temp.has /\ alert_triggered
    /\ Crosses(config, temp.v)
    /\ log # <<>> /\ log[Len(log)].temp # temp.v

C4_AlertOnlyAfterCooldown ==
    [][/\ (NumAlerts(log') # NumAlerts(log)) <=> (~alert_triggered /\ alert_triggered')
       /\ NumAlerts(log') # NumAlerts(log) =>
             /\ NumAlerts(log') = NumAlerts(log) + 1
             /\ log'[Len(log')].status = "ALERT"
             /\ \A i \in 1..Len(timers) : timers[i] = "done"
             /\ Len(timers) = NumAlerts(log)
      ]_vars

\* a second alert has fired, after the cooldown of the first
C4_Witness ==
    /\ NumAlerts(log) = 2 /\ alert_triggered
    /\ Len(timers) = 2 /\ timers[1] = "done"

\* a frame was read and cropped, and extraction returned no value for text
NoValueStep(text) ==
    /\ pc = "loop"
    /\ FrameRaises = ""
    /\ ~extract_temperature(text).has
    /\ ReadFrame(TRUE, text)

\* C5: a poll iteration whose extraction yields no value does not raise in
\* the extraction and leaves last_temp, alert_triggered, the cooldown threads
\* and the log file as they were; the loop goes on (to the key handling in
\* the interactive monitor, to the next frame in the headless one).
C5_NoValueIterationChangesNothing ==
    [][/\ \A text \in OcrTexts :
             NoValueStep(text) =>
                /\ pc' = IF variant = "interactive" THEN "keys" ELSE "loop"
                /\ UNCHANGED <<last_temp, alert_triggered, timers, log, sounds>>
       /\ (pc = "keys" /\ ~temp.has /\ pc' # pc) =>
             UNCHANGED <<last_temp, alert_triggered, timers, log, sounds>>
      ]_vars

\* an iteration without a value is under way while an earlier reading is
\* remembered and a cooldown runs
C5_Witness ==
    /\ pc = "keys" /\ ~temp.has
    /\ last_temp.has /\ alert_triggered /\ PendingTimers # {}
    /\ log # <<>>

\* the rectangle r lies inside a frame of size fs
Inside(r, fs) ==
    /\ r.x >= 0 /\ r.y >= 0
    /\ r.x + r.width <= fs.w
    /\ r.y + r.height <= fs.h

\* C6: in every poll iteration the rectangle used to crop the frame lies
\* inside the frame.
C6_CropInsideFrame ==
    pc \in {"check", "trigger", "trigger_timer", "log", "keys"} =>
        Inside(CropRect, frameSize)

\* C7: no run of either monitor ends with an opened, unreleased camera handle.
C7_CameraReleasedAtExit ==
    (~ProcessAlive /\ arg # "--calibrate") => cap # "open"

\* C8: save_config followed by load_config on the same file leaves the
\* in-memory config as it was.
C8_RoundTrip ==
    [][pc = "rt_load" => config' = config]_vars

\* a configuration with a negative fractional threshold, escaped characters
\* in its strings and a negative coordinate has gone through save and load
C8_Witness ==
    /\ pc = "rt_done"
    /\ file.exists
    /\ config.temperature_threshold = Float(-5)
    /\ config.roi.x < 0
    /\ config.enable_preview
    /\ \E i \in 1..Len(config.log_file) : config.log_file[i] = "\\"
    /\ \E i \in 1..Len(config.ocr_config) : config.ocr_config[i] = "°"

\* C9: after construction the config file holds the in-memory config at every
\* step of the monitor; a camera selection is stored in both; the '+' and
\* '-' keys change the threshold by exactly 1 and nothing else.
C9_MutationsPersisted ==
    /\ []((tesseract /\ pc \notin {"main", "init"}
              /\ (variant = "headless" \/ arg = "run")) =>
             (file.exists /\ json_load(file) = config))
    /\ [][/\ (pc \in {"select", "auto"} /\ pc' = "run") =>
                /\ config'.camera_index = run_index'
                /\ file'.camera_index = DumpInt(run_index')
          /\ \A d \in {1, -1} :
                (HandleKey(IF d = 1 THEN "+" ELSE "-") /\ pc' = "loop") =>
                   /\ config'.temperature_threshold.tenths
                         = config.temperature_threshold.tenths + 10 * d
                   /\ config' = [config EXCEPT
                                    !.temperature_threshold.tenths = @ + 10 * d]
         ]_vars

\* the threshold was raised from 50.0 and the file holds the new value
C9_Witness ==
    /\ pc = "loop"
    /\ config.temperature_threshold = Float(510)
    /\ file.temperature_threshold = <<"5", "1", ".", "0">>

\* C10: whichever entry point creates the config file, the file it leaves
\* holds every required key.
C10_CreatedFileComplete ==
    [][(~file.exists /\ file'.exists) => RequiredKeys \subseteq file'.keys]_vars

\* a step of the main thread that calls cv2.VideoCapture
OpensCamera ==
    \/ ListCameras /\ arg = "--list"
    \/ SelectCamera
    \/ AutoSelect
    \/ RunOpenInteractive /\ Has("camera_index")
    \/ RunOpenHeadless
    \/ CalOpen

\* C11: with the OCR engine absent the program stops before any camera is
\* opened: no step of either script, under any argument, opens a camera
\* while the engine is absent.
C11_NoCameraWithoutOcr == [][OpensCamera => tesseract]_vars

\* the arguments under which the script runs the monitor
MonitorArgs == {"run", "auto", "--select", "index"}

\* C12: a monitor that could not open any camera does not end with a
\* success exit status: when the process has ended with status 0 under a
\* monitor argument, run() had opened a camera.
C12_FailedOpenExitsNonZero ==
    (pc = "returned" /\ arg \in MonitorArgs) => cap # "none"

\* C13: enable_preview, capture_interval and log_interval are optional: with
\* a config that holds every required key, neither monitor ends with a
\* KeyError.
C13_RequiredKeysSuffice ==
    (RequiredKeys \subseteq config.keys) => pc # "KeyError"

\* every reset_alert thread started so far has written the flag
AllWritten == \A i \in 1..Len(timers) : timers[i] = "done"

\* who writes alert_triggered, under every interleaving: the flag goes up
\* only in trigger_alert on the main thread; it goes down only in a step of
\* the reset_alert thread started last, which takes no step of the main
\* thread and ends the thread; a thread that has written never acts
\* again; at most one thread is pending and the flag it will clear is up
SingleWriter ==
    /\ [](/\ Cardinality(PendingTimers) <= 1
          /\ PendingTimers # {} => alert_triggered)
    /\ [][/\ (~alert_triggered /\ alert_triggered') =>
                pc = "trigger" /\ pc' = "trigger_timer" /\ timers' = timers
          /\ (alert_triggered /\ ~alert_triggered') =>
                /\ pc' = pc
                /\ timers # <<>>
                /\ timers[Len(timers)] = "sleeping"
                /\ timers' = [timers EXCEPT ![Len(timers)] = "done"]
          /\ \A i \in 1..Len(timers) :
                /\ timers[i] = "done" => timers'[i] = "done"
                /\ (timers[i] # "done" /\ timers'[i] = "done") =>
                      alert_triggered /\ ~alert_triggered'
         ]_vars

LogInterval == IF variant = "interactive" THEN LogEvery ELSE config.log_interval

\* the step appends a normal-status line to the log
NormalLineAppended ==
    /\ Len(log') = Len(log) + 1
    /\ log'[Len(log')].status = "normal"

\* C15: a normal-status line is written only in an iteration that produced
\* a value, and at least one log interval (10 s interactive, log_interval
\* headless) after the normal-status line before it.
C15_NormalLinesApart ==
    [][NormalLineAppended =>
          /\ pc = "log" /\ temp.has
          /\ (\E i \in 1..Len(log) : log[i].status = "normal") =>
                sinceLog >= LogInterval
      ]_vars

====
